---- MODULE Spec2Model ----
(***************************************************************************)
(* GenTaxAI chat service (src/gentaxai/main.py): the in-memory session     *)
(* store CONVERSATIONS, its durable copy sessions.json, and the request    *)
(* handlers chat_endpoint and new_session.                                 *)
(*                                                                         *)
(* A Python str is a sequence of tokens; a token is a whitespace           *)
(* character or a run of non-whitespace text.  Optional[str] is <<>> for   *)
(* None and <<s>> for the string s.  A dict with string keys is a          *)
(* function whose domain is its key set.                                   *)
(*                                                                         *)
(* chat_endpoint is an `async def` without any await, so the event loop    *)
(* runs each request to completion: one action per handled request.        *)
(***************************************************************************)
EXTENDS Integers, Sequences, FiniteSets, TLC

VARIABLES
    CONVERSATIONS,   \* main.py:39-46, session id -> list of turns
    sessions_file,   \* the content of SESSIONS_FILE on disk
    uuid4_next,      \* number of the next identifier uuid.uuid4() returns
    requests,        \* number of /api/chat requests handled so far
    query,           \* the ChatQuery of the last /api/chat request
    outcome,         \* what retrieve, llm.invoke and save_sessions did in it
    session_id,      \* the local session_id of the last request, <<>> if none
    response,        \* the response to the last /api/chat request
    issued,          \* the session identifiers sent to a caller so far
    process,         \* "up", or "startup_failed" when the module load raised
    tasks,           \* the chat_endpoint coroutines of the event loop
    running,         \* the coroutine the event loop is executing, 0 if none
    owner            \* for each transcript, the coroutine that wrote each turn

vars == <<CONVERSATIONS, sessions_file, uuid4_next, requests, query, outcome,
          session_id, response, issued, process, tasks, running, owner>>

----------------------------------------------------------------------------
(* Bounds *)

MaxRequests == 2

MaxUuids == 1

----------------------------------------------------------------------------
(* Strings *)

Whitespace == {" ", "\n", "\t"}

RECURSIVE LStrip(_)
LStrip(s) ==
    IF s # <<>> /\ Head(s) \in Whitespace THEN LStrip(Tail(s)) ELSE s

RECURSIVE RStrip(_)
RStrip(s) ==
    IF s # <<>> /\ s[Len(s)] \in Whitespace
    THEN RStrip(SubSeq(s, 1, Len(s) - 1))
    ELSE s

\* the question taken as it came, not trimmed
StripIdentity(s) == s

\* str.strip()
Strip(s) == RStrip(LStrip(s))

Digits == <<"0", "1", "2", "3", "4", "5", "6", "7", "8", "9">>

\* str(i) of a non-negative int
RECURSIVE IntStr(_)
IntStr(i) ==
    IF i < 10 THEN <<Digits[i + 1]>>
    ELSE IntStr(i \div 10) \o <<Digits[(i % 10) + 1]>>

\* sep.join(parts)
RECURSIVE Join(_, _)
Join(sep, parts) ==
    IF parts = <<>> THEN <<>>
    ELSE IF Len(parts) = 1 THEN parts[1]
    ELSE parts[1] \o sep \o Join(sep, Tail(parts))

\* truthiness of an Optional[str]: None and "" are falsy
Truthy(opt) == opt # <<>> /\ opt[1] # <<>>

----------------------------------------------------------------------------
(* Turns and the session store *)

SYSTEM_PROMPT == <<"You are GenTaxAI, a precise and helpful Indian tax assistant.">>

Turn(role, content) == [role |-> role, content |-> content]

SystemTurn == Turn("system", SYSTEM_PROMPT)

\* d[k] = v on a dict
Put(d, k, v) == [x \in DOMAIN d \cup {k} |-> IF x = k THEN v ELSE d[x]]

EmptyDict == [x \in {} |-> <<>>]

\* uuid.uuid4(): the n-th identifier generated; no two are equal
Uuid(n) == <<"uuid-", IntStr(n)>>

\* json.dump(CONVERSATIONS, f): one member per key
JsonDump(d) == {<<k, d[k]>> : k \in DOMAIN d}

\* json.load(f) of a well-formed object
JsonLoad(members) ==
    [k \in {m[1] : m \in members} |-> (CHOOSE m \in members : m[1] = k)[2]]

FileAbsent == [kind |-> "absent"]

\* a file that json.load rejects with JSONDecodeError (a write cut short)
FileMalformed == [kind |-> "malformed"]

\* a file cut inside the multi-byte UTF-8 encoding of a character
\* (ensure_ascii=False writes non-ASCII text as it is): reading it raises
\* UnicodeDecodeError, which is no JSONDecodeError
FileUndecodable == [kind |-> "undecodable"]

FileJson(d) == [kind |-> "json", members |-> JsonDump(d)]

\* the file never found: the store starts empty whatever was saved
LoadSessionsAlwaysEmpty(file) == EmptyDict

\* main.py:39-46, the module-level load
LoadSessions(file) ==
    IF file.kind = "json" THEN JsonLoad(file.members) ELSE EmptyDict

\* main.py:39-46: only json.JSONDecodeError is caught; any other exception
\* of the load leaves the module body and the process does not start
LoadRaises(file) == file.kind = "undecodable"

\* save_sessions without its try/except: an I/O error leaves the function
SaveSessionsUncaught(file, convs, io) ==
    [file |-> CASE io = "ok" -> FileJson(convs)
                [] io = "open_fails" -> file
                [] io = "write_fails" -> FileMalformed
                [] io = "write_fails_in_char" -> FileUndecodable,
     raised |-> io # "ok"]

\* the file opened in append mode: a second document after the first
SaveSessionsAppendMode(file, convs, io) ==
    [file |-> CASE io = "ok" -> IF file.kind = "absent" THEN FileJson(convs)
                                ELSE FileMalformed
                [] io = "open_fails" -> file
                [] io = "write_fails" -> FileMalformed
                [] io = "write_fails_in_char" -> FileUndecodable,
     raised |-> FALSE]

\* save_sessions(): io is what the file system does.  open(..., "w")
\* truncates the file before json.dump writes to it.  Every Exception is
\* caught, so the call never raises.
SaveSessions(file, convs, io) ==
    [file |-> CASE io = "ok" -> FileJson(convs)
                [] io = "open_fails" -> file
                [] io = "write_fails" -> FileMalformed
                [] io = "write_fails_in_char" -> FileUndecodable,
     raised |-> FALSE]

----------------------------------------------------------------------------
(* chat_endpoint, step by step *)

\* a fresh identifier minted whatever the caller supplied
ResolveAlwaysMint(opt, n) == Uuid(n)

\* line 106: query.session_id or str(uuid.uuid4())
ResolveSessionId(opt, n) == IF Truthy(opt) THEN opt[1] ELSE Uuid(n)

\* the preamble inserted on every request instead of on creation only
EnsureSessionEveryRequest(convs, sid) ==
    Put(convs, sid,
        IF sid \in DOMAIN convs THEN Append(convs[sid], SystemTurn)
        ELSE <<SystemTurn>>)

\* the transcript reset on every request: the membership test left out
EnsureSessionReset(convs, sid) == Put(convs, sid, <<SystemTurn>>)

\* lines 107-108
EnsureSession(convs, sid) ==
    IF sid \notin DOMAIN convs THEN Put(convs, sid, <<SystemTurn>>) ELSE convs

\* lines 111-115: retrieve(question, k=5) or [], [] when it raises
KbHits(kb) == IF kb.kind = "returns" THEN kb.hits ELSE <<>>

\* line 121: str(hit.get("source", "knowledge_base"))
HitSource(hit) ==
    IF "source" \in DOMAIN hit THEN hit.source ELSE <<"knowledge_base">>

\* line 122: str(hit.get("chunk_id", i))
HitChunkId(hit, i) ==
    IF "chunk_id" \in DOMAIN hit THEN hit.chunk_id ELSE IntStr(i)

\* line 123: str(hit.get("text", "")).strip()
HitText(hit) == Strip(IF "text" \in DOMAIN hit THEN hit.text ELSE <<>>)

\* lines 124-125: f"[{i}] {source}#chunk{chunk_id}" + "\n" + text
ContextText(hit, i) ==
    <<"[">> \o IntStr(i) \o <<"]", " ">> \o HitSource(hit) \o <<"#chunk">>
        \o HitChunkId(hit, i) \o <<"\n">> \o HitText(hit)

\* line 127
ContextBlock(kb_hits) ==
    <<"CONTEXT:", "\n">>
        \o Join(<<"\n", "\n">>,
                [i \in 1..Len(kb_hits) |-> ContextText(kb_hits[i], i)])

\* enumerate without start=1: ids and default chunk ids count from 0
CitationsZeroBased(kb_hits) ==
    [i \in 1..Len(kb_hits) |->
        [id |-> IntStr(i - 1),
         source |-> HitSource(kb_hits[i]),
         chunk_id |-> HitChunkId(kb_hits[i], i - 1)]]

\* lines 117, 120, 126
CitationsPayload(kb_hits) ==
    [i \in 1..Len(kb_hits) |->
        [id |-> IntStr(i),
         source |-> HitSource(kb_hits[i]),
         chunk_id |-> HitChunkId(kb_hits[i], i)]]

\* a context turn appended even when there are no hits
AppendEvidenceAlways(transcript, kb_hits) ==
    Append(transcript, Turn("assistant", ContextBlock(kb_hits)))

\* lines 118, 128
AppendEvidence(transcript, kb_hits) ==
    IF kb_hits # <<>>
    THEN Append(transcript, Turn("assistant", ContextBlock(kb_hits)))
    ELSE transcript

\* the question appended before its evidence
QuestionThenEvidence(transcript, kb_hits, question) ==
    AppendEvidence(Append(transcript, Turn("user", question)), kb_hits)

\* lines 118-131: the evidence turn, if any, then the question
AppendEvidenceAndQuestion(transcript, kb_hits, question) ==
    Append(AppendEvidence(transcript, kb_hits), Turn("user", question))

\* lines 83-88: one message per turn of a known role
LangchainMessage(msg) ==
    [type |-> CASE msg.role = "system" -> "SystemMessage"
                [] msg.role = "user" -> "HumanMessage"
                [] msg.role = "assistant" -> "AIMessage",
     content |-> msg.content]

\* only the preamble and the latest turn rendered: the history left out
ToLangchainMessagesLatestOnly(history) ==
    IF Len(history) <= 2
    THEN [i \in 1..Len(history) |-> LangchainMessage(history[i])]
    ELSE <<LangchainMessage(history[1]),
           LangchainMessage(history[Len(history)])>>

\* to_langchain_messages(history)
ToLangchainMessages(history) ==
    LET known(msg) == msg.role \in {"system", "user", "assistant"}
        kept == SelectSeq(history, known)
    IN  [i \in 1..Len(kept) |-> LangchainMessage(kept[i])]

\* the error text recorded as an assistant turn when llm.invoke raises
AppendAnswerOrError(transcript, llm) ==
    Append(transcript,
           Turn("assistant",
                IF llm.kind = "returns" THEN llm.content ELSE llm.error))

\* lines 135-141: the answer turn is appended only when llm.invoke returns
AppendAnswer(transcript, llm) ==
    IF llm.kind = "returns"
    THEN Append(transcript, Turn("assistant", llm.content))
    ELSE transcript

----------------------------------------------------------------------------
(* Responses *)

\* the response without its session_id (the field's default, None)
ChatResponseNoSession(answer, sid, citations) ==
    [route |-> "chat", status |-> 200, answer |-> answer, session_id |-> <<>>,
     citations |-> citations]

\* ChatResponse(answer=..., session_id=..., citations=...), status 200
ChatResponse(answer, sid, citations) ==
    [route |-> "chat", status |-> 200, answer |-> answer, session_id |-> sid,
     citations |-> citations]

\* HTTPException(status_code=..., detail=...)
HTTPException(status, detail) ==
    [route |-> "chat", status |-> status, detail |-> detail]

NoResponse == [route |-> "none", status |-> 0]

NoOutcome ==
    [retrieve |-> [kind |-> "not_called"], llm |-> [kind |-> "not_called"],
     lc_messages |-> <<>>, save |-> "not_called"]

----------------------------------------------------------------------------
(* chat_endpoint as a whole: the state and the response it leaves behind.  *)
(* convs, file and n are CONVERSATIONS, the file and the uuid counter      *)
(* before the request; kb, llm and io are what retrieve, llm.invoke and    *)
(* the file system do when called.                                         *)

\* the store saved in a finally clause: also when the model call failed
SaveInFinally(file, convs, llm, io) == SaveSessions(file, convs, io)

\* lines 135-142: the raise at 139 leaves the handler before save_sessions()
SaveAfterAnswer(file, convs, llm, io) ==
    IF llm.kind = "raises" THEN [file |-> file, raised |-> FALSE]
    ELSE SaveSessions(file, convs, io)

ChatEndpointResult(convs, file, n, qy, kb, llm, io) ==
    LET question == Strip(qy.question)
        sid == ResolveSessionId(qy.session_id, n)
        n1 == IF Truthy(qy.session_id) THEN n ELSE n + 1
        c1 == EnsureSession(convs, sid)
        kb_hits == KbHits(kb)
        citations_payload == CitationsPayload(kb_hits)
        c3 == [c1 EXCEPT ![sid] =
                  AppendEvidenceAndQuestion(@, kb_hits, question)]
        lc_messages == ToLangchainMessages(c3[sid])
        c4 == [c3 EXCEPT ![sid] = AppendAnswer(@, llm)]
        saved == SaveAfterAnswer(file, c4, llm, io)
        called == [retrieve |-> kb, llm |-> llm,
                   lc_messages |-> lc_messages, save |-> "not_called"]
    IN  IF question = <<>>
        THEN \* lines 103-104
             [convs |-> convs, file |-> file, uuid |-> n, sid |-> <<>>,
              outcome |-> NoOutcome,
              response |-> HTTPException(400, <<"Empty question">>)]
        ELSE IF llm.kind = "raises"
        THEN \* lines 138-139
             [convs |-> c4, file |-> saved.file, uuid |-> n1,
              sid |-> <<sid>>,
              outcome |-> called,
              response |->
                  HTTPException(500, <<"LLM error: ">> \o llm.error)]
        ELSE IF saved.raised
        THEN \* an exception leaving the handler: the framework answers 500
             [convs |-> c4, file |-> saved.file, uuid |-> n1,
              sid |-> <<sid>>,
              outcome |-> [called EXCEPT !.save = io],
              response |-> HTTPException(500, <<"Internal Server Error">>)]
        ELSE \* lines 141-144
             [convs |-> c4, file |-> saved.file, uuid |-> n1,
              sid |-> <<sid>>,
              outcome |-> [called EXCEPT !.save = io],
              response |-> ChatResponse(llm.content, sid, citations_payload)]

----------------------------------------------------------------------------
(* Inputs *)

\* session ids a client makes up itself
ClientIds == {<<"c1">>}

\* ChatQuery.question
Questions ==
    {<<>>, <<" ", "\t">>, <<" ", "What", " ", "is", " ", "GST?", "\n">>}

\* ChatQuery.session_id: None, "", an id the client made up, or one of the
\* ids the service sent to a caller (an identifier uuid4 generated that was
\* never sent out cannot be supplied: it cannot be guessed)
SessionIds(ids) ==
    {<<>>, <<<<>>>>} \cup {<<c>> : c \in ClientIds} \cup {<<u>> : u \in ids}

Hit1 == [source |-> <<"gst_act.pdf">>, chunk_id |-> <<"7">>,
         text |-> <<"\n", "GST", " ", "is", " ", "a", " ", "tax.", " ">>]

Hit2 == [text |-> <<"Section", " ", "194">>]

\* what retrieve(question, k=5) does: raises, returns None, or returns a
\* list of at most k snippet records, each field of which may be missing
RetrieveResults ==
    {[kind |-> "raises"], [kind |-> "returns_none"]}
        \cup {[kind |-> "returns", hits |-> h] :
                 h \in {<<>>, <<Hit2, Hit1>>}}

\* what llm.invoke(lc_messages) does: raises, or returns response.content
LlmResults ==
    {[kind |-> "raises", error |-> <<"rate", " ", "limit">>],
     [kind |-> "returns", content |-> <<"GST", " ", "is", " ", "a", " ", "tax.">>]}

\* what the file system does in save_sessions
IoResults == {"ok", "open_fails", "write_fails", "write_fails_in_char"}

\* the store an earlier run of the service wrote: one exchange of client c1
PriorStore ==
    ChatEndpointResult(EmptyDict, FileAbsent, 1,
                       [question |-> <<"TDS?">>, session_id |-> <<<<"c1">>>>],
                       [kind |-> "returns", hits |-> <<>>],
                       [kind |-> "returns", content |-> <<"Tax", " ", "deducted.">>],
                       "ok").convs

\* SESSIONS_FILE when the process starts
InitialFiles == {FileAbsent, FileMalformed, FileJson(PriorStore)}

----------------------------------------------------------------------------
(* The service *)

Init ==
    /\ sessions_file \in InitialFiles
    /\ CONVERSATIONS = LoadSessions(sessions_file)
    /\ uuid4_next = 1
    /\ requests = 0
    /\ query = [question |-> <<>>, session_id |-> <<>>]
    /\ outcome = NoOutcome
    /\ session_id = <<>>
    /\ response = NoResponse
    /\ issued = {}
    /\ process = "up"
    /\ tasks = <<>>
    /\ running = 0
    /\ owner = [sid \in DOMAIN CONVERSATIONS |->
                    [i \in 1..Len(CONVERSATIONS[sid]) |-> 0]]

\* What the collaborators do in one request, as <<kb, llm, io>>.  A
\* collaborator that is not called has nothing to do: one value stands for
\* all of them.
Environments(q) ==
    IF Strip(q) = <<>>
    THEN {<<[kind |-> "raises"],
            [kind |-> "raises", error |-> <<>>], "ok">>}
    ELSE {e \in RetrieveResults \X LlmResults \X IoResults :
              e[2].kind = "raises" => e[3] = "ok"}

\* POST /api/chat
ChatEndpoint ==
    /\ process = "up"
    /\ requests < MaxRequests
    /\ \E q \in Questions, s \in SessionIds(issued) :
          \E e \in Environments(q) :
              \E r \in {ChatEndpointResult(CONVERSATIONS, sessions_file,
                                           uuid4_next,
                                           [question |-> q, session_id |-> s],
                                           e[1], e[2], e[3])} :
                  /\ CONVERSATIONS' = r.convs
                  /\ sessions_file' = r.file
                  /\ uuid4_next' = r.uuid
                  /\ requests' = requests + 1
                  /\ query' = [question |-> q, session_id |-> s]
                  /\ outcome' = r.outcome
                  /\ session_id' = r.sid
                  /\ response' = r.response
                  /\ issued' = IF r.response.status = 200
                                THEN issued \cup {r.response.session_id}
                                ELSE issued
                  /\ UNCHANGED <<process, tasks, running, owner>>

\* POST /api/new-session: the identifier goes to the caller, the store is
\* not touched
NewSession ==
    /\ process = "up"
    /\ uuid4_next <= MaxUuids
    /\ uuid4_next' = uuid4_next + 1
    /\ issued' = issued \cup {Uuid(uuid4_next)}
    /\ UNCHANGED <<CONVERSATIONS, sessions_file, requests, query, outcome,
                   session_id, response, process, tasks, running, owner>>

Next == ChatEndpoint \/ NewSession

Spec == Init /\ [][Next]_vars

\* The process is stopped and started again: the module body runs anew
\* (main.py:18-46).  The file, and what callers know, outlive the process.
Restart ==
    /\ IF LoadRaises(sessions_file)
       THEN process' = "startup_failed" /\ CONVERSATIONS' = EmptyDict
       ELSE process' = "up" /\ CONVERSATIONS' = LoadSessions(sessions_file)
    /\ query' = [question |-> <<>>, session_id |-> <<>>]
    /\ outcome' = NoOutcome
    /\ session_id' = <<>>
    /\ response' = NoResponse
    /\ UNCHANGED <<sessions_file, uuid4_next, requests, issued, tasks,
                   running, owner>>

NextRestart == Next \/ Restart

\* the service over several process lifetimes
SpecRestart == Init /\ [][NextRestart]_vars

----------------------------------------------------------------------------
(* The event loop: chat_endpoint line by line, several requests in flight *)

\* a request the server accepted whose handler has not started
PendingTask(overlap) ==
    [pc |-> "pending", question |-> <<>>, sid |-> <<>>, buffer |-> {},
     overlap |-> overlap, saved |-> FALSE, status |-> 0]

\* the turns a step added, marked with the coroutine t that wrote them
OwnerAfter(own, convs, t) ==
    [sid \in DOMAIN convs |->
        LET old == IF sid \in DOMAIN own THEN own[sid] ELSE <<>>
        IN  old \o [i \in 1..(Len(convs[sid]) - Len(old)) |-> t]]

\* retrieve and llm.invoke awaited: the loop runs other coroutines meanwhile
YieldsAtCalls(pc) == pc \in {"begun", "retrieved"}

\* the file written by a worker thread: the loop runs other coroutines
\* between json.dump and the close of the file
YieldsInSave(pc) == pc = "dumped"

\* chat_endpoint is an async def without any await (lines 100-144): once the
\* loop starts the coroutine it gets control back only when it has ended
Yields(pc) == FALSE

\* the coroutine the loop executes after coroutine t reached pc
RunningAfter(t, pc) == IF pc = "done" \/ Yields(pc) THEN 0 ELSE t

\* the loop may execute a step of coroutine t
CanRun(t) == process = "up" /\ running \in {0, t}

\* a /api/chat request arrives; its handler waits for the loop
Receive ==
    /\ process = "up"
    /\ Len(tasks) < MaxRequests
    /\ tasks' = Append(tasks, PendingTask(running # 0))
    /\ UNCHANGED <<CONVERSATIONS, sessions_file, uuid4_next, requests, query,
                   outcome, session_id, response, issued, process, running,
                   owner>>

\* lines 102-108
Begin(t) ==
    /\ tasks[t].pc = "pending"
    /\ CanRun(t)
    /\ \E q \in Questions, s \in SessionIds(issued) :
          LET question == Strip(q)
              sid == ResolveSessionId(s, uuid4_next)
              pc == IF question = <<>> THEN "done" ELSE "begun"
          IN  IF question = <<>>
              THEN /\ tasks' = [tasks EXCEPT ![t].pc = "done",
                                             ![t].status = 400]
                   /\ running' = RunningAfter(t, "done")
                   /\ UNCHANGED <<CONVERSATIONS, uuid4_next, owner>>
              ELSE /\ CONVERSATIONS' = EnsureSession(CONVERSATIONS, sid)
                   /\ owner' = OwnerAfter(owner, CONVERSATIONS', t)
                   /\ uuid4_next' = IF Truthy(s) THEN uuid4_next
                                    ELSE uuid4_next + 1
                   /\ tasks' = [tasks EXCEPT ![t].pc = "begun",
                                             ![t].question = question,
                                             ![t].sid = <<sid>>]
                   /\ running' = RunningAfter(t, "begun")
    /\ UNCHANGED <<sessions_file, requests, query, outcome, session_id,
                   response, issued, process>>

\* lines 110-131
Retrieve(t) ==
    /\ tasks[t].pc = "begun"
    /\ CanRun(t)
    /\ \E kb \in RetrieveResults :
          CONVERSATIONS' =
              [CONVERSATIONS EXCEPT ![tasks[t].sid[1]] =
                  AppendEvidenceAndQuestion(@, KbHits(kb), tasks[t].question)]
    /\ owner' = OwnerAfter(owner, CONVERSATIONS', t)
    /\ tasks' = [tasks EXCEPT ![t].pc = "retrieved", ![t].question = <<>>]
    /\ running' = RunningAfter(t, "retrieved")
    /\ UNCHANGED <<sessions_file, uuid4_next, requests, query, outcome,
                   session_id, response, issued, process>>

\* lines 132-141
Invoke(t) ==
    /\ tasks[t].pc = "retrieved"
    /\ CanRun(t)
    /\ \E llm \in LlmResults :
          LET pc == IF llm.kind = "raises" THEN "done" ELSE "answered"
          IN  /\ CONVERSATIONS' =
                     [CONVERSATIONS EXCEPT ![tasks[t].sid[1]] =
                         AppendAnswer(@, llm)]
              /\ tasks' = [tasks EXCEPT
                              ![t].pc = pc,
                              ![t].status = IF pc = "done" THEN 500 ELSE 0]
              /\ running' = RunningAfter(t, pc)
    /\ owner' = OwnerAfter(owner, CONVERSATIONS', t)
    /\ UNCHANGED <<sessions_file, uuid4_next, requests, query, outcome,
                   session_id, response, issued, process>>

\* lines 50-51: the file opened for writing, which empties it, and the
\* store serialised into the file object; when open raises, line 53 and
\* then the return of line 144
SaveDump(t) ==
    /\ tasks[t].pc = "answered"
    /\ CanRun(t)
    /\ \E io \in {"ok", "open_fails"} :
          LET pc == IF io = "ok" THEN "dumped" ELSE "done"
          IN  /\ sessions_file' = IF io = "ok" THEN FileMalformed
                                  ELSE sessions_file
              /\ tasks' = [tasks EXCEPT
                              ![t].pc = pc,
                              ![t].buffer = IF io = "ok"
                                            THEN JsonDump(CONVERSATIONS)
                                            ELSE {},
                              ![t].status = IF pc = "done" THEN 200 ELSE 0]
              /\ issued' = IF pc = "done" THEN issued \cup {tasks[t].sid[1]}
                           ELSE issued
              /\ running' = RunningAfter(t, pc)
    /\ UNCHANGED <<CONVERSATIONS, uuid4_next, requests, query, outcome,
                   session_id, response, process, owner>>

\* the end of the with block of lines 50-51: what was serialised reaches
\* the file, or the write fails part-way (line 53); then the return of
\* line 144
SaveClose(t) ==
    /\ tasks[t].pc = "dumped"
    /\ CanRun(t)
    /\ \E io \in IoResults \ {"open_fails"} :
          /\ sessions_file' =
                 CASE io = "ok" -> [kind |-> "json", members |-> tasks[t].buffer]
                   [] io = "write_fails" -> FileMalformed
                   [] io = "write_fails_in_char" -> FileUndecodable
          /\ tasks' = [tasks EXCEPT ![t].pc = "done", ![t].buffer = {},
                                    ![t].saved = (io = "ok"),
                                    ![t].status = 200]
    /\ issued' = issued \cup {tasks[t].sid[1]}
    /\ running' = RunningAfter(t, "done")
    /\ UNCHANGED <<CONVERSATIONS, uuid4_next, requests, query, outcome,
                   session_id, response, process, owner>>

NextLoop ==
    \/ Receive
    \/ \E t \in 1..Len(tasks) : Begin(t)
    \/ \E t \in 1..Len(tasks) : Retrieve(t)
    \/ \E t \in 1..Len(tasks) : Invoke(t)
    \/ \E t \in 1..Len(tasks) : SaveDump(t)
    \/ \E t \in 1..Len(tasks) : SaveClose(t)

\* the /api/chat requests of one process as the event loop handles them
SpecLoop == Init /\ [][NextLoop]_vars

----------------------------------------------------------------------------
(* Vocabulary of the properties *)

IsPrefix(s, t) == Len(s) <= Len(t) /\ SubSeq(t, 1, Len(s)) = s

\* a step that handles one /api/chat request
ChatStep == requests' = requests + 1

\* blank after trimming: nothing but whitespace
IsBlank(q) == \A i \in 1..Len(q) : q[i] \in Whitespace

\* the last request got past validation and resolved a session
Resolved == session_id # <<>>

\* the transcript of the session the last request resolved
Transcript == CONVERSATIONS[session_id[1]]

\* the snippets retrieval produced in the last request
Snippets ==
    IF outcome.retrieve.kind = "returns" THEN outcome.retrieve.hits ELSE <<>>

\* t is q without its leading and trailing whitespace
IsTrimOf(t, q) ==
    /\ t # <<>> => t[1] \notin Whitespace /\ t[Len(t)] \notin Whitespace
    /\ \E i \in 1..(Len(q) + 1) :
           /\ i + Len(t) - 1 <= Len(q)
           /\ SubSeq(q, i, i + Len(t) - 1) = t
           /\ IsBlank(SubSeq(q, 1, i - 1))
           /\ IsBlank(SubSeq(q, i + Len(t), Len(q)))

\* In a step that resolves session sid: the length its transcript had
\* before the exchange appended anything (a session created by the exchange
\* starts with its preamble)
LenBefore(sid) ==
    IF sid \in DOMAIN CONVERSATIONS THEN Len(CONVERSATIONS[sid]) ELSE 1

\* In a step that resolves a session: the turns the exchange appended
AppendedTurns ==
    LET sid == session_id'[1]
    IN  SubSeq(CONVERSATIONS'[sid], LenBefore(sid) + 1,
               Len(CONVERSATIONS'[sid]))

EvidenceHeader == <<"CONTEXT:", "\n">>

----------------------------------------------------------------------------
(* Properties *)

\* C1: in every reachable state every session of the store has a transcript
\* whose first turn is the system turn with the fixed preamble, and no later
\* turn of it has role system.
C1_PreambleFirstAndOnly ==
    \A sid \in DOMAIN CONVERSATIONS :
        LET t == CONVERSATIONS[sid]
        IN  /\ Len(t) >= 1
            /\ t[1].role = "system"
            /\ t[1].content = SYSTEM_PROMPT
            /\ \A i \in 2..Len(t) : t[i].role # "system"

\* C1 witness: a session that went through two exchanges, the last of them
\* an inference failure
C1_Witness ==
    /\ requests >= 2
    /\ Resolved
    /\ outcome.llm.kind = "raises"
    /\ Len(Transcript) >= 5

\* C2: a successful exchange appends exactly: the evidence turn (role
\* assistant) if and only if retrieval produced at least one snippet, then
\* the user turn with the trimmed question, then the assistant turn with
\* the answer.
C2_AppendOrder ==
    [][ChatStep /\ response'.status = 200 =>
        LET a == AppendedTurns
            e == IF Snippets' # <<>> THEN 1 ELSE 0
        IN  /\ Len(a) = e + 2
            /\ e = 1 => /\ a[1].role = "assistant"
                        /\ IsPrefix(EvidenceHeader, a[1].content)
            /\ a[e + 1].role = "user"
            /\ IsTrimOf(a[e + 1].content, query'.question)
            /\ a[e + 2].role = "assistant"
            /\ a[e + 2].content = outcome'.llm.content
            /\ a[e + 2].content = response'.answer]_vars

\* C2 witness: a successful exchange with evidence has completed
C2_Witness ==
    /\ response.status = 200
    /\ Snippets # <<>>
    /\ Len(Transcript) >= 4
    /\ Transcript[Len(Transcript) - 1].role = "user"

\* C3: transcripts are append-only and sessions are never removed: in every
\* step of the running service each session of the store is still in the
\* store afterwards, and its old transcript is a prefix of its new one.
C3_AppendOnly ==
    [][\A sid \in DOMAIN CONVERSATIONS :
           /\ sid \in DOMAIN CONVERSATIONS'
           /\ IsPrefix(CONVERSATIONS[sid], CONVERSATIONS'[sid])]_vars

\* C3 witness: a session loaded from the file at start has been extended by
\* two successful exchanges
C3_Witness ==
    /\ requests >= 2
    /\ response.status = 200
    /\ Resolved
    /\ session_id[1] \in DOMAIN PriorStore
    /\ IsPrefix(PriorStore[session_id[1]], Transcript)
    /\ Len(Transcript) >= Len(PriorStore[session_id[1]]) + 4

\* C4: a question that is blank after trimming is rejected with the
\* empty-question condition before any mutation: the store, the file and
\* the uuid counter are unchanged and no collaborator is called, whatever
\* session_id came with it.
C4_BlankRejected ==
    [][ChatStep /\ IsBlank(query'.question) =>
        /\ response'.status = 400
        /\ response'.detail = <<"Empty question">>
        /\ CONVERSATIONS' = CONVERSATIONS
        /\ sessions_file' = sessions_file
        /\ uuid4_next' = uuid4_next
        /\ outcome'.retrieve.kind = "not_called"
        /\ outcome'.llm.kind = "not_called"
        /\ outcome'.save = "not_called"]_vars

\* C4 witness: a whitespace-only question sent with a session_id unknown to
\* the store has been rejected
C4_Witness ==
    /\ requests >= 1
    /\ query.question # <<>>
    /\ IsBlank(query.question)
    /\ Truthy(query.session_id)
    /\ query.session_id[1] \notin DOMAIN CONVERSATIONS
    /\ response.status = 400

\* C5: a request whose retrieval raised and a request whose retrieval
\* returned no snippet fare alike: the exchange proceeds to inference, no
\* evidence turn is appended, the response is decided by inference alone
\* (never a retrieval error), and when inference succeeds exactly the user
\* turn and the assistant turn are appended and the citation list is empty.
C5_RetrievalFailureAsEmpty ==
    [][ChatStep /\ outcome'.retrieve.kind # "not_called" /\ Snippets' = <<>> =>
        LET a == AppendedTurns
        IN  /\ outcome'.llm.kind \in {"returns", "raises"}
            /\ \A i \in 1..Len(a) : ~IsPrefix(EvidenceHeader, a[i].content)
            /\ outcome'.llm.kind = "returns" =>
                   /\ response'.status = 200
                   /\ response'.citations = <<>>
                   /\ Len(a) = 2
                   /\ a[1].role = "user"
                   /\ a[2].role = "assistant"
            /\ outcome'.llm.kind = "raises" =>
                   /\ response'.status = 500
                   /\ IsPrefix(<<"LLM error: ">>, response'.detail)
                   /\ Len(a) = 1
                   /\ a[1].role = "user"]_vars

\* C5 witness: a known session with 4 prior turns, retrieval raises, and
\* the exchange succeeds with 2 new turns and no citation
C5_Witness ==
    /\ requests >= 2
    /\ outcome.retrieve.kind = "raises"
    /\ response.status = 200
    /\ response.citations = <<>>
    /\ Len(Transcript) = 6
    /\ Transcript[5].role = "user"

\* C5 witness for the other case: retrieval returned an empty list
C5_WitnessEmpty ==
    /\ outcome.retrieve.kind = "returns"
    /\ Snippets = <<>>
    /\ response.status = 200
    /\ response.citations = <<>>

\* C6: when inference fails the caller receives the inference-error
\* condition and no answer; the transcript keeps what the exchange appended
\* before the call (the evidence turn if any, then the user turn) and gets
\* no assistant answer turn.
C6_InferenceFailureKeepsTurns ==
    [][ChatStep /\ outcome'.llm.kind = "raises" =>
        LET a == AppendedTurns
            e == IF Snippets' # <<>> THEN 1 ELSE 0
        IN  /\ response'.status = 500
            /\ IsPrefix(<<"LLM error: ">>, response'.detail)
            /\ "answer" \notin DOMAIN response'
            /\ Len(a) = e + 1
            /\ e = 1 => /\ a[1].role = "assistant"
                        /\ IsPrefix(EvidenceHeader, a[1].content)
            /\ a[e + 1].role = "user"
            /\ IsTrimOf(a[e + 1].content, query'.question)]_vars

\* C6 witness: inference failed after evidence and question were appended
C6_Witness ==
    /\ outcome.llm.kind = "raises"
    /\ Snippets # <<>>
    /\ response.status = 500
    /\ Len(Transcript) >= 3
    /\ Transcript[Len(Transcript)].role = "user"
    /\ IsPrefix(EvidenceHeader, Transcript[Len(Transcript) - 1].content)

\* C7: a persistence failure is swallowed: when inference succeeded and the
\* save failed, the caller still gets status 200 with the answer, the
\* session identifier and the citations, and the transcript keeps every
\* turn of the exchange.  Hence a request with a non-blank question gets an
\* answer exactly when inference succeeds.
C7_PersistFailureSwallowed ==
    [][ChatStep =>
        /\ outcome'.save \in IoResults \ {"ok"} =>
               LET a == AppendedTurns
                   e == IF Snippets' # <<>> THEN 1 ELSE 0
               IN  /\ response'.status = 200
                   /\ response'.answer = outcome'.llm.content
                   /\ response'.session_id = session_id'[1]
                   /\ Len(response'.citations) = Len(Snippets')
                   /\ Len(a) = e + 2
                   /\ a[e + 1].role = "user"
                   /\ a[e + 2] = Turn("assistant", response'.answer)
        /\ ~IsBlank(query'.question) =>
               /\ outcome'.llm.kind \in {"returns", "raises"}
               /\ (response'.status = 200 /\ "answer" \in DOMAIN response')
                      <=> outcome'.llm.kind = "returns"]_vars

\* C7 witness: the write of the file failed half way and the caller still
\* got the answer
C7_Witness ==
    /\ outcome.save = "write_fails"
    /\ sessions_file = FileMalformed
    /\ outcome.llm.kind = "returns"
    /\ response.status = 200
    /\ Transcript[Len(Transcript)].content = response.answer

\* the decimal numerals of the positions 1..5 (retrieve is asked for k=5)
Numeral(i) == <<<<"1">>, <<"2">>, <<"3">>, <<"4">>, <<"5">>>>[i]

\* C8: for a retrieval result of n snippets the citation list returned has
\* exactly n entries in snippet order; entry i has id the numeral of i, the
\* i-th snippet's source (the placeholder when missing) and the i-th
\* snippet's chunk_id (the numeral of i when missing).  Nothing of an
\* earlier exchange is in the list.
C8_CitationsParallelSnippets ==
    response.status = 200 =>
        LET h == Snippets
            c == response.citations
        IN  /\ Len(c) = Len(h)
            /\ \A i \in 1..Len(h) :
                   /\ c[i].id = Numeral(i)
                   /\ c[i].source =
                          IF "source" \in DOMAIN h[i] THEN h[i].source
                          ELSE <<"knowledge_base">>
                   /\ c[i].chunk_id =
                          IF "chunk_id" \in DOMAIN h[i] THEN h[i].chunk_id
                          ELSE Numeral(i)

\* C8 witness: the second exchange of a session whose first exchange had
\* evidence too returns the 2 citations of its own 2 snippets, one of them
\* with defaults
C8_Witness ==
    /\ requests >= 2
    /\ response.status = 200
    /\ Len(Snippets) = 2
    /\ Len(Transcript) = 7
    /\ IsPrefix(EvidenceHeader, Transcript[2].content)
    /\ IsPrefix(EvidenceHeader, Transcript[5].content)
    /\ Len(response.citations) = 2
    /\ response.citations[1] =
           [id |-> <<"1">>, source |-> <<"knowledge_base">>,
            chunk_id |-> <<"1">>]
    /\ response.citations[2].chunk_id = <<"7">>

\* In a step that resolves a session: the number of turns the exchange
\* appends after resolution
ExchangeLen ==
    (IF Snippets' # <<>> THEN 1 ELSE 0)
        + (IF outcome'.llm.kind = "returns" THEN 2 ELSE 1)

\* In a step that resolves session sid: a fresh identifier was minted for it
Minted(sid) ==
    /\ sid = Uuid(uuid4_next)
    /\ uuid4_next' = uuid4_next + 1
    /\ sid \notin DOMAIN CONVERSATIONS
    /\ <<sid>> # query'.session_id

\* In a step that resolves session sid: its transcript was initialised with
\* the single preamble turn, the exchange's turns following it
InitialisedWithPreamble(sid) ==
    /\ sid \notin DOMAIN CONVERSATIONS
    /\ IsPrefix(<<SystemTurn>>, CONVERSATIONS'[sid])
    /\ Len(CONVERSATIONS'[sid]) = 1 + ExchangeLen
    /\ \A i \in 2..Len(CONVERSATIONS'[sid]) :
           CONVERSATIONS'[sid][i].role # "system"

\* In a step that resolves session sid: the existing transcript was taken
\* as it was, the exchange's turns following it
ExistingUnchanged(sid) ==
    /\ sid \in DOMAIN CONVERSATIONS
    /\ <<sid>> = query'.session_id
    /\ uuid4_next' = uuid4_next
    /\ IsPrefix(CONVERSATIONS[sid], CONVERSATIONS'[sid])
    /\ Len(CONVERSATIONS'[sid]) = Len(CONVERSATIONS[sid]) + ExchangeLen

\* C9 as claimed: session resolution mints a new unique identifier, with a
\* transcript of the single preamble turn, whenever the supplied session_id
\* is unset or not a key of the store, and otherwise returns the existing
\* transcript unchanged.
C9_MintWhenUnsetOrUnknown ==
    [][ChatStep /\ Resolved' =>
        LET sid == session_id'[1]
            unknown == \/ query'.session_id = <<>>
                       \/ query'.session_id[1] \notin DOMAIN CONVERSATIONS
        IN  IF unknown
            THEN Minted(sid) /\ InitialisedWithPreamble(sid)
            ELSE ExistingUnchanged(sid)]_vars

\* C9 amended: an identifier is minted only when the supplied session_id is
\* unset or the empty string; a supplied non-empty identifier that is not a
\* key of the store becomes itself the key of a new transcript of the single
\* preamble turn (nothing is minted); a known one has its existing
\* transcript returned unchanged.
C9_MintWhenUnsetAdoptWhenUnknown ==
    [][ChatStep /\ Resolved' =>
        LET sid == session_id'[1]
            supplied == query'.session_id
        IN  IF supplied = <<>> \/ supplied[1] = <<>>
            THEN Minted(sid) /\ InitialisedWithPreamble(sid)
            ELSE IF supplied[1] \notin DOMAIN CONVERSATIONS
            THEN /\ sid = supplied[1]
                 /\ uuid4_next' = uuid4_next
                 /\ InitialisedWithPreamble(sid)
            ELSE ExistingUnchanged(sid)]_vars

\* C9 witness: an identifier the store did not know was supplied and is now
\* the key of a session, no identifier having been generated
C9_Witness ==
    /\ requests = 1
    /\ uuid4_next = 1
    /\ Resolved
    /\ query.session_id = <<<<"c1">>>>
    /\ session_id = query.session_id
    /\ DOMAIN CONVERSATIONS = {<<"c1">>}
    /\ Len(Transcript) = 2
    /\ Transcript[1] = SystemTurn

\* C10: a successful exchange with no session_id and a retrieval result of
\* k >= 1 snippets creates exactly one new session; its transcript has
\* exactly the 4 turns system, assistant (evidence), user, assistant
\* (answer); the session identifier returned is its key in the store and the
\* citation list has exactly k entries.
C10_FirstExchangeWithEvidence ==
    [][ChatStep /\ query'.session_id = <<>> /\ response'.status = 200
            /\ Snippets' # <<>> =>
        LET created == DOMAIN CONVERSATIONS' \ DOMAIN CONVERSATIONS
            sid == response'.session_id
            t == CONVERSATIONS'[sid]
        IN  /\ created = {sid}
            /\ DOMAIN CONVERSATIONS \subseteq DOMAIN CONVERSATIONS'
            /\ \A x \in DOMAIN CONVERSATIONS :
                   CONVERSATIONS'[x] = CONVERSATIONS[x]
            /\ Len(t) = 4
            /\ t[1] = SystemTurn
            /\ t[2].role = "assistant"
            /\ IsPrefix(EvidenceHeader, t[2].content)
            /\ t[3].role = "user"
            /\ IsTrimOf(t[3].content, query'.question)
            /\ t[4] = Turn("assistant", response'.answer)
            /\ Len(response'.citations) = Len(Snippets')]_vars

\* C10 witness: no session_id, 2 snippets, success: a new session of 4
\* turns beside the one loaded at start, and 2 citations
C10_Witness ==
    /\ query.session_id = <<>>
    /\ response.status = 200
    /\ Len(Snippets) = 2
    /\ Len(response.citations) = 2
    /\ response.session_id \in DOMAIN CONVERSATIONS
    /\ response.session_id \notin DOMAIN PriorStore
    /\ Len(CONVERSATIONS[response.session_id]) = 4
    /\ Cardinality(DOMAIN CONVERSATIONS) = 2

\* C11: when a successful exchange has finished and its persist step did
\* not fail, the durable store is the whole in-memory mapping as it is at
\* that moment: one member per session of the store, each with all the
\* turns of that session.
C11_FileIsWholeStore ==
    outcome.save = "ok" =>
        /\ sessions_file.kind = "json"
        /\ {m[1] : m \in sessions_file.members} = DOMAIN CONVERSATIONS
        /\ \A m \in sessions_file.members : m[2] = CONVERSATIONS[m[1]]

\* C11 witness: the exchange that persisted was on one session, and the
\* file also holds another session, whose last turn is the question of an
\* exchange that failed at inference
C11_Witness ==
    /\ outcome.save = "ok"
    /\ Resolved
    /\ \E m \in sessions_file.members :
           /\ m[1] # session_id[1]
           /\ m[2][Len(m[2])].role = "user"
           /\ m[2] = CONVERSATIONS[m[1]]

\* a step that is neither a /api/chat nor a /api/new-session request: the
\* process starting again
RestartStep == requests' = requests /\ uuid4_next' = uuid4_next

\* C12: round trip: when the last exchange persisted successfully and the
\* process then restarts, the store loaded from the file equals the
\* in-memory store at the time of the persist: same session identifiers,
\* same turns in the same order.
C12_PersistLoadRoundTrip ==
    [][RestartStep /\ outcome.save = "ok" =>
        /\ process' = "up"
        /\ DOMAIN CONVERSATIONS' = DOMAIN CONVERSATIONS
        /\ \A sid \in DOMAIN CONVERSATIONS :
               CONVERSATIONS'[sid] = CONVERSATIONS[sid]]_vars

\* C12 witness: a restarted process whose store holds a session that the
\* run before created and persisted
C12_Witness ==
    /\ requests >= 1
    /\ response = NoResponse
    /\ process = "up"
    /\ sessions_file.kind = "json"
    /\ \E sid \in DOMAIN CONVERSATIONS :
           /\ sid \notin DOMAIN PriorStore
           /\ Len(CONVERSATIONS[sid]) >= 3
           /\ <<sid, CONVERSATIONS[sid]>> \in sessions_file.members

\* C13 as claimed: startup fails soft: whenever the process starts and the
\* file is absent or is not a well-formed JSON document, the process comes
\* up with the empty mapping as its store.
C13_StartupFailsSoft ==
    [][RestartStep /\ sessions_file.kind # "json" =>
        process' = "up" /\ CONVERSATIONS' = EmptyDict]_vars

\* C14: session resolution is idempotent: when a request supplies an
\* identifier that is a key of the store, resolving it, once or twice in a
\* row, yields that identifier and leaves the store as it is; the exchange
\* mints nothing, creates no session and adds no second preamble: it only
\* extends the transcript that was there.
C14_ResolutionIdempotent ==
    [][/\ ChatStep
       /\ session_id' # <<>>
       /\ Truthy(query'.session_id)
       /\ query'.session_id[1] \in DOMAIN CONVERSATIONS
       =>
        LET sid == query'.session_id[1]
            once == EnsureSession(CONVERSATIONS,
                                  ResolveSessionId(<<sid>>, uuid4_next))
            twice == EnsureSession(once, ResolveSessionId(<<sid>>, uuid4_next))
        IN  /\ ResolveSessionId(<<sid>>, uuid4_next) = sid
            /\ once = CONVERSATIONS
            /\ twice = once
            /\ twice[sid] = CONVERSATIONS[sid]
            /\ session_id' = <<sid>>
            /\ uuid4_next' = uuid4_next
            /\ DOMAIN CONVERSATIONS' = DOMAIN CONVERSATIONS
            /\ IsPrefix(CONVERSATIONS[sid], CONVERSATIONS'[sid])
            /\ \A i \in 1..Len(AppendedTurns) :
                   AppendedTurns[i].role # "system"]_vars

\* C14 witness: a session this process created, resolved again by a later
\* request that supplied its identifier
C14_Witness ==
    /\ requests >= 2
    /\ Resolved
    /\ query.session_id = session_id
    /\ session_id[1] \notin DOMAIN PriorStore
    /\ Len(Transcript) >= 5

\* the transcript of the resolved session as it was when the last request
\* called the model: the answer, if one came back, was appended after it
TranscriptAtInvoke ==
    IF outcome.llm.kind = "returns"
    THEN SubSeq(Transcript, 1, Len(Transcript) - 1)
    ELSE Transcript

\* turn i of transcript t is the evidence turn of an exchange before the
\* one whose user turn is the last turn of t
IsEarlierEvidence(t, i) ==
    /\ t[i].role = "assistant"
    /\ IsPrefix(EvidenceHeader, t[i].content)
    /\ \E j \in (i + 1)..(Len(t) - 1) : t[j].role = "user"

\* C17: whenever the model is invoked, its input renders the whole current
\* transcript of the session: one message per turn, in order, system to
\* SystemMessage, user to HumanMessage, assistant to AIMessage, contents
\* kept; the first message is the preamble, the last is the user turn of
\* the current question, and the evidence turns of earlier exchanges are
\* among the messages.
C17_ModelInputIsFullTranscript ==
    outcome.llm.kind # "not_called" =>
        LET t == TranscriptAtInvoke
            m == outcome.lc_messages
        IN  /\ Len(m) = Len(t)
            /\ \A i \in 1..Len(t) :
                   /\ m[i].content = t[i].content
                   /\ t[i].role = "system" <=> m[i].type = "SystemMessage"
                   /\ t[i].role = "user" <=> m[i].type = "HumanMessage"
                   /\ t[i].role = "assistant" <=> m[i].type = "AIMessage"
            /\ m[1] = [type |-> "SystemMessage", content |-> SYSTEM_PROMPT]
            /\ m[Len(m)].type = "HumanMessage"
            /\ IsTrimOf(m[Len(m)].content, query.question)
            /\ \A i \in 1..Len(t) :
                   IsEarlierEvidence(t, i) =>
                       m[i] = [type |-> "AIMessage", content |-> t[i].content]

\* C17 witness: the model invoked on a session that holds the evidence turn
\* and the answer of an earlier exchange and the evidence of this one
C17_Witness ==
    /\ outcome.llm.kind # "not_called"
    /\ Snippets # <<>>
    /\ \E i \in 1..Len(TranscriptAtInvoke) :
           IsEarlierEvidence(TranscriptAtInvoke, i)
    /\ Len(outcome.lc_messages) >= 6

\* C18: an exchange that ends in an inference failure leaves the file as it
\* was and does not call the persist; the file changes only in an exchange
\* whose answer came back and was appended; and a successful persist,
\* whichever session's exchange triggers it, makes every turn held in
\* memory durable, those of other sessions included.
C18_FailureLeavesFileUnchanged ==
    [][ChatStep =>
        /\ outcome'.llm.kind = "raises" =>
               /\ sessions_file' = sessions_file
               /\ outcome'.save = "not_called"
               /\ Len(AppendedTurns) >= 1
        /\ sessions_file' # sessions_file =>
               /\ outcome'.llm.kind = "returns"
               /\ outcome'.save # "not_called"
               /\ CONVERSATIONS'[session_id'[1]][
                      Len(CONVERSATIONS'[session_id'[1]])].content
                      = outcome'.llm.content
        /\ outcome'.save = "ok" =>
               /\ sessions_file'.kind = "json"
               /\ \A sid \in DOMAIN CONVERSATIONS :
                      <<sid, CONVERSATIONS[sid]>> \in sessions_file'.members
                          \/ sid = session_id'[1]]_vars

\* C18 witness: the evidence and user turns of an exchange that ended in an
\* inference failure, made durable by a successful exchange on another
\* session
C18_Witness ==
    /\ outcome.save = "ok"
    /\ sessions_file.kind = "json"
    /\ \E sid \in DOMAIN CONVERSATIONS :
           LET t == CONVERSATIONS[sid]
           IN  /\ sid # session_id[1]
               /\ sid \notin DOMAIN PriorStore
               /\ Len(t) = 3
               /\ IsPrefix(EvidenceHeader, t[2].content)
               /\ t[3].role = "user"
               /\ <<sid, t>> \in sessions_file.members

\* C19: session isolation: an exchange changes the transcript of at most
\* one session, the one it resolved, which is the supplied non-empty
\* session_id or else the identifier minted for it; every other session of
\* the store keeps its transcript, no other session appears or disappears,
\* and an answer to a request that supplied a non-empty session_id carries
\* that session_id.
C19_SessionIsolation ==
    [][ChatStep =>
        /\ session_id' = <<>> => CONVERSATIONS' = CONVERSATIONS
        /\ session_id' # <<>> =>
               LET sid == session_id'[1]
               IN  /\ IF Truthy(query'.session_id)
                      THEN sid = query'.session_id[1]
                      ELSE sid = Uuid(uuid4_next)
                               /\ sid \notin DOMAIN CONVERSATIONS
                   /\ DOMAIN CONVERSATIONS'
                          = DOMAIN CONVERSATIONS \cup {sid}
                   /\ \A other \in DOMAIN CONVERSATIONS \ {sid} :
                          CONVERSATIONS'[other] = CONVERSATIONS[other]
        /\ response'.status = 200 /\ Truthy(query'.session_id) =>
               response'.session_id = query'.session_id[1]]_vars

\* C19 witness: an exchange answered on a supplied session_id while the
\* store holds two other sessions with turns of their own
C19_Witness ==
    /\ response.status = 200
    /\ Truthy(query.session_id)
    /\ response.session_id = query.session_id[1]
    /\ \E a, b \in DOMAIN CONVERSATIONS :
           /\ a # b
           /\ a # session_id[1] /\ b # session_id[1]
           /\ Len(CONVERSATIONS[a]) >= 2 /\ Len(CONVERSATIONS[b]) >= 2

\* the sessions of the store whose identifier no caller knows: not one a
\* client made up, and never sent out in a response
Orphaned == {sid \in DOMAIN CONVERSATIONS : sid \notin ClientIds \cup issued}

\* C20: when the model call fails on a request that supplied no session_id,
\* the session minted for it stays in the store with the transcript
\* [system, evidence if any, user] and its identifier is not in the
\* response; a request without session_id always resolves to a session that
\* was not in the store; and a session whose identifier no caller knows is
\* never changed afterwards and its identifier is never sent out, so it
\* never gets an answer turn.
C20_OrphanedSessionStays ==
    [][/\ ChatStep /\ ~Truthy(query'.session_id)
              /\ outcome'.llm.kind = "raises" =>
              LET sid == session_id'[1]
                  t == CONVERSATIONS'[sid]
                  e == IF Snippets' # <<>> THEN 1 ELSE 0
              IN  /\ sid \notin DOMAIN CONVERSATIONS
                  /\ Len(t) = e + 2
                  /\ t[1] = SystemTurn
                  /\ e = 1 => /\ t[2].role = "assistant"
                              /\ IsPrefix(EvidenceHeader, t[2].content)
                  /\ t[Len(t)].role = "user"
                  /\ IsTrimOf(t[Len(t)].content, query'.question)
                  /\ response'.status = 500
                  /\ "session_id" \notin DOMAIN response'
                  /\ sid \in Orphaned'
       /\ ChatStep /\ ~Truthy(query'.session_id) /\ session_id' # <<>> =>
              session_id'[1] \notin DOMAIN CONVERSATIONS
       /\ \A sid \in Orphaned :
              /\ sid \in Orphaned'
              /\ CONVERSATIONS'[sid] = CONVERSATIONS[sid]]_vars

\* C20 witness: the question of a failed request without session_id sent
\* again without session_id and answered in another new session, the first
\* one still ending with its user turn
C20_Witness ==
    /\ response.status = 200
    /\ ~Truthy(query.session_id)
    /\ Transcript[Len(Transcript)].role = "assistant"
    /\ \E sid \in Orphaned :
           LET t == CONVERSATIONS[sid]
           IN  /\ sid # session_id[1]
               /\ Len(t) = 3
               /\ IsPrefix(EvidenceHeader, t[2].content)
               /\ t[3].role = "user"
               /\ IsTrimOf(t[3].content, query.question)

\* coroutine t is in the middle of its handler
InFlight(t) == tasks[t].pc \notin {"pending", "done"}

\* coroutine t answered its request and its persist succeeded
Persisted(t) == tasks[t].pc = "done" /\ tasks[t].saved

\* C15 as claimed: exchanges in flight run concurrently: while the handler
\* of one request is between two of its appends (after its evidence or user
\* turn, before its answer), the handler of another request that has been
\* received can take its next step, so that its turns fall in between.
C15_AppendsCanInterleave ==
    \A a, b \in 1..Len(tasks) :
        tasks[a].pc \in {"begun", "retrieved"} /\ tasks[b].pc = "pending"
            => ENABLED Begin(b)

\* C15 amended: exchanges never interleave their appends: at most one
\* handler is between its first line and its return at any time, and in
\* every transcript the turns written by one exchange are next to each
\* other, with no turn of another exchange between them.
C15_AppendsDoNotInterleave ==
    /\ Cardinality({t \in 1..Len(tasks) : InFlight(t)}) <= 1
    /\ DOMAIN owner = DOMAIN CONVERSATIONS
    /\ \A sid \in DOMAIN owner :
           /\ Len(owner[sid]) = Len(CONVERSATIONS[sid])
           /\ \A i, k \in 1..Len(owner[sid]) :
                  i < k /\ owner[sid][i] = owner[sid][k] =>
                      \A j \in i..k : owner[sid][j] = owner[sid][i]

\* C15 witness: two answered exchanges on one session, the second received
\* while the handler of the first was running
C15_Witness ==
    \E a, b \in 1..Len(tasks) :
        /\ a # b
        /\ tasks[a].status = 200 /\ tasks[b].status = 200
        /\ tasks[b].overlap
        /\ tasks[a].sid = tasks[b].sid
        /\ \E i, k \in 1..Len(owner[tasks[a].sid[1]]) :
               /\ owner[tasks[a].sid[1]][i] = a
               /\ owner[tasks[a].sid[1]][k] = b

\* C16 as claimed: exchanges race the persist step: while the handler of
\* one request is at its persist (its answer appended, the file not yet
\* closed), the handler of another request that has been received can take
\* its next step, so that the store one of them writes lacks what the other
\* appended.
C16_PersistsCanRace ==
    \A a, b \in 1..Len(tasks) :
        tasks[a].pc \in {"answered", "dumped"} /\ tasks[b].pc = "pending"
            => ENABLED Begin(b)

\* C16 amended: persists do not clobber each other: when two exchanges on
\* different sessions have both completed with successful persists, and no
\* other exchange has run, the file holds the transcripts of both sessions
\* exactly as they are in memory.
C16_PersistsDoNotClobber ==
    \A a, b \in 1..Len(tasks) :
        /\ a # b
        /\ Persisted(a) /\ Persisted(b)
        /\ tasks[a].sid # tasks[b].sid
        /\ \A c \in 1..Len(tasks) \ {a, b} : tasks[c].sid = <<>>
        =>
        /\ sessions_file.kind = "json"
        /\ \A s \in {tasks[a].sid[1], tasks[b].sid[1]} :
               <<s, CONVERSATIONS[s]>> \in sessions_file.members

\* C16 witness: two exchanges on different sessions, both persisted, the
\* second received while the handler of the first was running
C16_Witness ==
    \E a, b \in 1..Len(tasks) :
        /\ Persisted(a) /\ Persisted(b)
        /\ tasks[b].overlap
        /\ tasks[a].sid # tasks[b].sid
        /\ sessions_file.kind = "json"
        /\ \A s \in {tasks[a].sid[1], tasks[b].sid[1]} :
               /\ CONVERSATIONS[s][Len(CONVERSATIONS[s])].role = "assistant"
               /\ <<s, CONVERSATIONS[s]>> \in sessions_file.members

====
